---- MODULE Spec2Model ----
(***************************************************************************)
(* Model of the resilient SSE subscription (useSSE), the task-event        *)
(* adapter (useTaskSSE) and the query cache it reconciles.                 *)
(***************************************************************************)
EXTENDS Integers, Sequences, FiniteSets, TLC

(* ---- program constants (useSSE.ts:15-17) ---- *)
MAX_RETRIES == 10
BASE_RETRY_DELAY == 1000
MAX_RETRY_DELAY == 30000

(* ---- bounds of the model ---- *)
MaxSources == 2      \* EventSource objects the browser can hold at once
MaxTimers == 3       \* timer ids the browser can hold at once

(* ---- encodings of JavaScript values ---- *)
Null == 0            \* null (handles and timer ids are positive)
Undefined == -1      \* undefined, for the optional number nextRetryIn
NoError == "undefined"           \* lastError.value = undefined
ERR_LOST == "Connection to server lost"
ERR_MAX == "Connection failed after maximum retry attempts"
ERR_PARSE == "Failed to parse server event data"

SourceIds == 1..MaxSources
TimerIds == 1..MaxTimers

VARIABLES
  eventSource,           \* eventSource.value: Null or the id of an EventSource
  isConnected,
  isConnecting,
  retryCount,
  lastError,
  nextRetryIn,
  retryTimer,            \* Null or the id returned by setTimeout
  retryCountdownTimer,   \* Null or the id returned by setInterval
  sources,               \* browser: readyState of every EventSource object
  timeouts,              \* browser: delay of every live timeout (0: not live)
  intervals,             \* browser: ids of the live intervals
  eventHandlers,         \* eventHandlers.value: the registered handlers
  filters,               \* filters.value of useTaskSSE / useTasks
  tasksData,             \* query cache: data under ['tasks', key]
  countsData,            \* query cache: data under ['tasks-counts']
  lastOp,                \* the operation or callback that ran last
  errRun,                \* delays scheduled by the current run of errors
  lastFrame,             \* the frame the last callback was run for, if any
  calls,                 \* registered handlers invoked by the last callback
  reconciled,            \* reconcilers that ran in the last callback
  pre,                   \* status and pending work just before lastOp ran
  exhausted,             \* retries ran out and forceReconnect was not called since
  thrown,                \* callbacks that threw in the last callback
  prevCache,             \* the filters and the cache just before lastOp ran
  pulled,                \* what the pull that ran last answered, if one did
  pushes,                \* push events reconciled so far, in the runs that count them
  probe,                 \* the value handed to the classifier, and its answer
  server,                \* the API: the tasks it stores, newest first, and its next id
  stream,                \* the frames the server has sent and the transport not yet surfaced
  mutation,              \* the mutation the user has in flight, and how many were issued
  tasksQuery,            \* the query of the current page: idle, requested or answered
  countsQuery            \* the query of the counts: idle, requested or answered

connVars == <<eventSource, isConnected, isConnecting, retryCount, lastError,
              nextRetryIn, retryTimer, retryCountdownTimer>>
envVars == <<sources, timeouts, intervals>>
cacheVars == <<filters, tasksData, countsData>>
vars == <<connVars, envVars, eventHandlers, cacheVars, lastOp, errRun,
          lastFrame, calls, reconciled, pre, exhausted, thrown, prevCache,
          pulled, pushes, probe, server, stream, mutation, tasksQuery,
          countsQuery>>
netVars == <<server, stream, mutation, tasksQuery, countsQuery>>

Min(a, b) == IF a < b THEN a ELSE b

Pow2(n) == 2 ^ n

(* The state the operations of useSSE read and write, as one record. *)
Cur ==
  [eventSource |-> eventSource, isConnected |-> isConnected,
   isConnecting |-> isConnecting, retryCount |-> retryCount,
   lastError |-> lastError, nextRetryIn |-> nextRetryIn,
   retryTimer |-> retryTimer, retryCountdownTimer |-> retryCountdownTimer,
   sources |-> sources, timeouts |-> timeouts, intervals |-> intervals,
   eventHandlers |-> eventHandlers, filters |-> filters,
   tasksData |-> tasksData, countsData |-> countsData,
   calls |-> {}, reconciled |-> {}, thrown |-> {}]

Assign(s) ==
  /\ eventSource' = s.eventSource
  /\ isConnected' = s.isConnected
  /\ isConnecting' = s.isConnecting
  /\ retryCount' = s.retryCount
  /\ lastError' = s.lastError
  /\ nextRetryIn' = s.nextRetryIn
  /\ retryTimer' = s.retryTimer
  /\ retryCountdownTimer' = s.retryCountdownTimer
  /\ sources' = s.sources
  /\ timeouts' = s.timeouts
  /\ intervals' = s.intervals
  /\ eventHandlers' = s.eventHandlers
  /\ filters' = s.filters
  /\ tasksData' = s.tasksData
  /\ countsData' = s.countsData
  /\ calls' = s.calls
  /\ reconciled' = s.reconciled
  /\ thrown' = s.thrown

(* getStatus reporting reconnecting while a retry is scheduled *)
getStatus_retryPending(s) ==
  IF s.isConnected THEN "connected"
  ELSE IF s.isConnecting \/ s.retryTimer # Null
       THEN (IF s.retryCount > 0 THEN "reconnecting" ELSE "connecting")
       ELSE (IF s.retryCount >= MAX_RETRIES THEN "failed" ELSE "disconnected")

(* connectionState.status *)
getStatus(s) ==
  IF s.isConnected THEN "connected"
  ELSE IF s.isConnecting
       THEN (IF s.retryCount > 0 THEN "reconnecting" ELSE "connecting")
       ELSE (IF s.retryCount >= MAX_RETRIES THEN "failed" ELSE "disconnected")

status == getStatus(Cur)

hasFailedPermanently == status = "failed"

canRetry == retryCount < MAX_RETRIES

(* browser: ids not in use, the smallest is handed out *)
FreeTimerIds(s) ==
  {i \in TimerIds : s.timeouts[i] = 0 /\ i \notin s.intervals}

FreshTimer(s) == CHOOSE i \in FreeTimerIds(s) : \A j \in FreeTimerIds(s) : i <= j

FreeSourceIds(s) == {i \in SourceIds : s.sources[i] = "CLOSED"}

FreshSource(s) == CHOOSE i \in FreeSourceIds(s) : \A j \in FreeSourceIds(s) : i <= j

(* clearRetryTimers without "nextRetryIn.value = undefined" *)
clearRetryTimers_keepNext(s) ==
  LET s1 == IF s.retryTimer # Null
            THEN [s EXCEPT !.timeouts[s.retryTimer] = 0, !.retryTimer = Null]
            ELSE s
  IN IF s1.retryCountdownTimer # Null
     THEN [s1 EXCEPT !.intervals = @ \ {s1.retryCountdownTimer},
                     !.retryCountdownTimer = Null]
     ELSE s1

clearRetryTimers(s) ==
  LET s1 == IF s.retryTimer # Null
            THEN [s EXCEPT !.timeouts[s.retryTimer] = 0, !.retryTimer = Null]
            ELSE s
      s2 == IF s1.retryCountdownTimer # Null
            THEN [s1 EXCEPT !.intervals = @ \ {s1.retryCountdownTimer},
                            !.retryCountdownTimer = Null]
            ELSE s1
  IN [s2 EXCEPT !.nextRetryIn = Undefined]

(* onOpen without "retryCount.value = 0" *)
onOpen_keepCount(s) ==
  clearRetryTimers([s EXCEPT !.isConnected = TRUE, !.isConnecting = FALSE,
                             !.lastError = NoError])

onOpen(s) ==
  clearRetryTimers([s EXCEPT !.isConnected = TRUE, !.isConnecting = FALSE,
                             !.retryCount = 0, !.lastError = NoError])

(* eventSource.value.close(); eventSource.value = null *)
closeSource(s) ==
  IF s.eventSource # Null
  THEN [s EXCEPT !.sources[s.eventSource] = "CLOSED", !.eventSource = Null]
  ELSE s

(* the delay without Math.min(..., MAX_RETRY_DELAY) *)
retryDelay_nocap(n) == BASE_RETRY_DELAY * Pow2(n)

retryDelay(n) == Min(BASE_RETRY_DELAY * Pow2(n), MAX_RETRY_DELAY)

ceilSeconds(delay) == (delay + 999) \div 1000

(* onError counting every error twice *)
onError_double(s) ==
  LET s1 == closeSource([s EXCEPT !.lastError = ERR_LOST,
                                  !.isConnected = FALSE, !.isConnecting = FALSE])
  IN IF s1.retryCount >= MAX_RETRIES
     THEN [s1 EXCEPT !.lastError = ERR_MAX]
     ELSE LET delay == retryDelay(s1.retryCount)
              s2 == [s1 EXCEPT !.retryCount = @ + 2,
                               !.nextRetryIn = ceilSeconds(delay)]
              iv == FreshTimer(s2)
              s3 == [s2 EXCEPT !.intervals = @ \cup {iv},
                               !.retryCountdownTimer = iv]
              tm == FreshTimer(s3)
          IN [s3 EXCEPT !.timeouts[tm] = delay, !.retryTimer = tm]

(* onError dropping the handle without eventSource.value.close() *)
onError_noclose(s) ==
  LET s1 == [s EXCEPT !.lastError = ERR_LOST, !.isConnected = FALSE,
                      !.isConnecting = FALSE, !.eventSource = Null]
  IN IF s1.retryCount >= MAX_RETRIES
     THEN [s1 EXCEPT !.lastError = ERR_MAX]
     ELSE LET delay == retryDelay(s1.retryCount)
              s2 == [s1 EXCEPT !.retryCount = @ + 1,
                               !.nextRetryIn = ceilSeconds(delay)]
              iv == FreshTimer(s2)
              s3 == [s2 EXCEPT !.intervals = @ \cup {iv},
                               !.retryCountdownTimer = iv]
              tm == FreshTimer(s3)
          IN [s3 EXCEPT !.timeouts[tm] = delay, !.retryTimer = tm]

onError(s) ==
  LET s1 == closeSource([s EXCEPT !.lastError = ERR_LOST,
                                  !.isConnected = FALSE, !.isConnecting = FALSE])
  IN IF s1.retryCount >= MAX_RETRIES
     THEN [s1 EXCEPT !.lastError = ERR_MAX]
     ELSE LET delay == retryDelay(s1.retryCount)
              s2 == [s1 EXCEPT !.retryCount = @ + 1,
                               !.nextRetryIn = ceilSeconds(delay)]
              iv == FreshTimer(s2)
              s3 == [s2 EXCEPT !.intervals = @ \cup {iv},
                               !.retryCountdownTimer = iv]
              tm == FreshTimer(s3)
          IN [s3 EXCEPT !.timeouts[tm] = delay, !.retryTimer = tm]

(* connect without the retryCount >= MAX_RETRIES guard *)
connect_nolimit(s) ==
  IF s.eventSource # Null \/ s.isConnecting THEN s
  ELSE LET s1 == clearRetryTimers([s EXCEPT !.isConnecting = TRUE,
                                            !.lastError = NoError])
           es == FreshSource(s1)
       IN [s1 EXCEPT !.sources[es] = "CONNECTING", !.eventSource = es]

(* connect without the guard against an existing transport or attempt *)
connect_noguard(s) ==
  IF s.retryCount >= MAX_RETRIES THEN s
  ELSE LET s1 == clearRetryTimers([s EXCEPT !.isConnecting = TRUE,
                                            !.lastError = NoError])
           es == FreshSource(s1)
       IN [s1 EXCEPT !.sources[es] = "CONNECTING", !.eventSource = es]

(* connect without clearRetryTimers() *)
connect_keepTimers(s) ==
  IF s.eventSource # Null \/ s.isConnecting THEN s
  ELSE IF s.retryCount >= MAX_RETRIES THEN s
  ELSE LET s1 == [s EXCEPT !.isConnecting = TRUE, !.lastError = NoError]
           es == FreshSource(s1)
       IN [s1 EXCEPT !.sources[es] = "CONNECTING", !.eventSource = es]

(* url is the constant '/api/sse/tasks' (TabsTrigger.vue:124), for which   *)
(* new EventSource(url) does not throw: the catch branch is not reachable. *)
connect(s) ==
  IF s.eventSource # Null \/ s.isConnecting THEN s
  ELSE IF s.retryCount >= MAX_RETRIES THEN s
  ELSE LET s1 == clearRetryTimers([s EXCEPT !.isConnecting = TRUE,
                                            !.lastError = NoError])
           es == FreshSource(s1)
       IN [s1 EXCEPT !.sources[es] = "CONNECTING", !.eventSource = es]

(* disconnect without clearRetryTimers() *)
disconnect_keepTimers(s) ==
  LET s1 == closeSource(s)
  IN [s1 EXCEPT !.isConnected = FALSE, !.isConnecting = FALSE,
                !.retryCount = 0, !.lastError = NoError]

(* disconnect without "retryCount.value = 0" *)
disconnect_keepCount(s) ==
  LET s1 == closeSource(clearRetryTimers(s))
  IN [s1 EXCEPT !.isConnected = FALSE, !.isConnecting = FALSE,
                !.lastError = NoError]

(* disconnect that also empties eventHandlers *)
disconnect_clearHandlers(s) ==
  LET s1 == closeSource(clearRetryTimers(s))
  IN [s1 EXCEPT !.isConnected = FALSE, !.isConnecting = FALSE,
                !.retryCount = 0, !.lastError = NoError,
                !.eventHandlers = <<>>]

disconnect(s) ==
  LET s1 == closeSource(clearRetryTimers(s))
  IN [s1 EXCEPT !.isConnected = FALSE, !.isConnecting = FALSE,
                !.retryCount = 0, !.lastError = NoError]

(* forceReconnect without disconnect() *)
forceReconnect_noTeardown(s) ==
  connect([s EXCEPT !.retryCount = 0])

forceReconnect(s) ==
  connect([disconnect(s) EXCEPT !.retryCount = 0])

(* the callback of setTimeout in onError; the browser has retired the id *)
retryTimerCallback(s) == connect(clearRetryTimers(s))

(* the callback of setInterval in onError *)
countdownCallback(s) ==
  IF s.nextRetryIn # Undefined /\ s.nextRetryIn # 0 /\ s.nextRetryIn > 0
  THEN [s EXCEPT !.nextRetryIn = @ - 1]
  ELSE LET s1 == IF s.retryCountdownTimer # Null
                 THEN [s EXCEPT !.intervals = @ \ {s.retryCountdownTimer}]
                 ELSE s
       IN [s1 EXCEPT !.retryCountdownTimer = Null]

(* ---- tasks, filters and the query cache ---- *)
MaxTaskId == 1       \* task identities 1..MaxTaskId
MaxCount == 1        \* cap on the counters of the cache
MaxItems == 3        \* items of the largest page a pull answers with
MaxPushes == 2       \* push events of a run that counts them
DEFAULT_PAGE == 1
DEFAULT_SIZE == 12

TaskStatus == {"OPEN", "IN_PROGRESS", "DONE"}
SSE_TASK_EVENT_TYPES == {"task_created", "task_updated", "task_deleted"}
TaskIds == 1..MaxTaskId
(* a field a payload does not carry reads as undefined *)
Titles == {"A", "B"}
Tasks == [id : TaskIds, status : TaskStatus, title : Titles]
(* task: null or undefined, which "if (!task) return" stops *)
NoTask == [id |-> Undefined, status |-> "undefined", title |-> "undefined"]

(* the key ['tasks', {status, page, size}] of a filter state *)
getTasksQueryKey(f) ==
  [status |-> IF f.tab = "ALL" THEN "undefined" ELSE f.tab,
   page |-> IF f.page = Undefined \/ f.page = 0 THEN DEFAULT_PAGE ELSE f.page,
   size |-> IF f.size = Undefined \/ f.size = 0 THEN DEFAULT_SIZE ELSE f.size]

(* the key of the reconciler always naming the first page *)
reconcilerKey_firstPage(f) ==
  [status |-> IF f.tab = "ALL" THEN "undefined" ELSE f.tab,
   page |-> DEFAULT_PAGE,
   size |-> IF f.size = Undefined \/ f.size = 0 THEN DEFAULT_SIZE ELSE f.size]

(* the key the three reconcilers hand to setQueryData:                    *)
(* ['tasks', {status: tab === 'ALL' ? undefined : tab, page: page || 1,   *)
(* size: size || 12}]                                                      *)
reconcilerKey(f) ==
  [status |-> IF f.tab = "ALL" THEN "undefined" ELSE f.tab,
   page |-> IF f.page = Undefined \/ f.page = 0 THEN DEFAULT_PAGE ELSE f.page,
   size |-> IF f.size = Undefined \/ f.size = 0 THEN DEFAULT_SIZE ELSE f.size]

(* the pages and the page sizes the view asks for *)
Pages == {DEFAULT_PAGE, 2}
PageSizes == {1, DEFAULT_SIZE}
QueryKeys == [status : TaskStatus \cup {"undefined"},
              page : Pages, size : PageSizes]

NoPage == [present |-> FALSE, items |-> <<>>, total |-> 0]
NoCounts == [present |-> FALSE, total |-> 0, OPEN |-> 0, IN_PROGRESS |-> 0, DONE |-> 0]

(* n without Math.max(0, ...) *)
Max0_identity(n) == n

Max0(n) == IF n > 0 THEN n ELSE 0

HasId(items, id) == \E i \in 1..Len(items) : items[i].id = id

(* filter that stops at the first item it removes *)
RemoveId_dropTail(items, id) ==
  IF HasId(items, id)
  THEN SubSeq(items, 1, (CHOOSE i \in 1..Len(items) :
                           /\ items[i].id = id
                           /\ \A j \in 1..(i - 1) : items[j].id # id) - 1)
  ELSE items

RECURSIVE RemoveId(_, _)
RemoveId(items, id) ==
  IF items = <<>> THEN <<>>
  ELSE IF Head(items).id # id
       THEN <<Head(items)>> \o RemoveId(Tail(items), id)
       ELSE RemoveId(Tail(items), id)

(* { ...item, ...task } keeping nothing of the item *)
MergeTask_replace(item, task) == task

(* { ...item, ...task }: every field the payload carries overrides the    *)
(* item's, every other field of the item stays                            *)
MergeTask(item, task) ==
  [id |-> IF task.id # Undefined THEN task.id ELSE item.id,
   status |-> IF task.status # "undefined" THEN task.status ELSE item.status,
   title |-> IF task.title # "undefined" THEN task.title ELSE item.title]

(* handleTaskCreated with items: [...oldData.items, task] *)
handleTaskCreated_append(s, task) ==
  IF task = NoTask THEN s
  ELSE
    LET f == s.filters
        shouldShowInCurrentView ==
          f.tab = "undefined" \/ f.tab = "ALL" \/ f.tab = task.status
        c == s.countsData
        s1 == IF c.present
              THEN [s EXCEPT !.countsData =
                      [c EXCEPT !.total = Max0(c.total + 1),
                                ![task.status] = Max0(c[task.status] + 1)]]
              ELSE s
        key == reconcilerKey(f)
        old == s1.tasksData[key]
        s2 == IF shouldShowInCurrentView /\ old.present /\ ~HasId(old.items, task.id)
              THEN [s1 EXCEPT !.tasksData[key] =
                      [old EXCEPT !.items = old.items \o <<task>>,
                                  !.total = old.total + 1]]
              ELSE s1
    IN [s2 EXCEPT !.reconciled = @ \cup {"handleTaskCreated"}]

(* handleTaskCreated whose updater answers a missing entry with a page of *)
(* the new task                                                           *)
handleTaskCreated_fabricate(s, task) ==
  IF task = NoTask THEN s
  ELSE
    LET f == s.filters
        shouldShowInCurrentView ==
          f.tab = "undefined" \/ f.tab = "ALL" \/ f.tab = task.status
        c == s.countsData
        s1 == IF c.present
              THEN [s EXCEPT !.countsData =
                      [c EXCEPT !.total = Max0(c.total + 1),
                                ![task.status] = Max0(c[task.status] + 1)]]
              ELSE s
        key == reconcilerKey(f)
        old == s1.tasksData[key]
        s2 == IF shouldShowInCurrentView /\ ~old.present
              THEN [s1 EXCEPT !.tasksData[key] =
                      [present |-> TRUE, items |-> <<task>>, total |-> 1]]
              ELSE IF shouldShowInCurrentView /\ ~HasId(old.items, task.id)
              THEN [s1 EXCEPT !.tasksData[key] =
                      [old EXCEPT !.items = <<task>> \o old.items,
                                  !.total = old.total + 1]]
              ELSE s1
    IN [s2 EXCEPT !.reconciled = @ \cup {"handleTaskCreated"}]

(* handleTaskCreated raising the counts only for a task the view shows *)
handleTaskCreated_countsIfShown(s, task) ==
  IF task = NoTask THEN s
  ELSE
    LET f == s.filters
        shouldShowInCurrentView ==
          f.tab = "undefined" \/ f.tab = "ALL" \/ f.tab = task.status
        c == s.countsData
        s1 == IF c.present /\ shouldShowInCurrentView
              THEN [s EXCEPT !.countsData =
                      [c EXCEPT !.total = Max0(c.total + 1),
                                ![task.status] = Max0(c[task.status] + 1)]]
              ELSE s
        key == reconcilerKey(f)
        old == s1.tasksData[key]
        s2 == IF shouldShowInCurrentView /\ old.present /\ ~HasId(old.items, task.id)
              THEN [s1 EXCEPT !.tasksData[key] =
                      [old EXCEPT !.items = <<task>> \o old.items,
                                  !.total = old.total + 1]]
              ELSE s1
    IN [s2 EXCEPT !.reconciled = @ \cup {"handleTaskCreated"}]

handleTaskCreated(s, task) ==
  IF task = NoTask THEN s
  ELSE
    LET f == s.filters
        shouldShowInCurrentView ==
          f.tab = "undefined" \/ f.tab = "ALL" \/ f.tab = task.status
        c == s.countsData
        s1 == IF c.present
              THEN [s EXCEPT !.countsData =
                      [c EXCEPT !.total = Max0(c.total + 1),
                                ![task.status] = Max0(c[task.status] + 1)]]
              ELSE s
        key == reconcilerKey(f)
        old == s1.tasksData[key]
        s2 == IF shouldShowInCurrentView /\ old.present /\ ~HasId(old.items, task.id)
              THEN [s1 EXCEPT !.tasksData[key] =
                      [old EXCEPT !.items = <<task>> \o old.items,
                                  !.total = old.total + 1]]
              ELSE s1
    IN [s2 EXCEPT !.reconciled = @ \cup {"handleTaskCreated"}]

(* handleTaskUpdated without "if (!oldData) return oldData": reading      *)
(* oldData.items of a missing entry throws                                *)
handleTaskUpdated_noGuard(s, task) ==
  IF task = NoTask THEN s
  ELSE
    LET key == reconcilerKey(s.filters)
        old == s.tasksData[key]
        s1 == IF old.present
              THEN [s EXCEPT !.tasksData[key].items =
                      [i \in 1..Len(old.items) |->
                         IF old.items[i].id = task.id
                         THEN MergeTask(old.items[i], task) ELSE old.items[i]]]
              ELSE [s EXCEPT !.thrown = @ \cup {"handleTaskUpdated"}]
    IN [s1 EXCEPT !.reconciled = @ \cup {"handleTaskUpdated"}]

handleTaskUpdated(s, task) ==
  IF task = NoTask THEN s
  ELSE
    LET key == reconcilerKey(s.filters)
        old == s.tasksData[key]
        s1 == IF old.present
              THEN [s EXCEPT !.tasksData[key].items =
                      [i \in 1..Len(old.items) |->
                         IF old.items[i].id = task.id
                         THEN MergeTask(old.items[i], task) ELSE old.items[i]]]
              ELSE s
    IN [s1 EXCEPT !.reconciled = @ \cup {"handleTaskUpdated"}]

handleTaskDeleted(s, task) ==
  IF task = NoTask THEN s
  ELSE
    LET key == reconcilerKey(s.filters)
        old == s.tasksData[key]
        s1 == IF old.present
              THEN [s EXCEPT !.tasksData[key] =
                      [old EXCEPT !.items = RemoveId(old.items, task.id),
                                  !.total = Max0(old.total - 1)]]
              ELSE s
        c == s1.countsData
        s2 == IF c.present
              THEN [s1 EXCEPT !.countsData =
                      [c EXCEPT !.total = Max0(c.total - 1),
                                ![task.status] = Max0(c[task.status] - 1)]]
              ELSE s1
    IN [s2 EXCEPT !.reconciled = @ \cup {"handleTaskDeleted"}]

(* ---- the filter state of the view ---- *)
TaskTabs == TaskStatus \cup {"ALL"}

(* filters.value = { ...filters.value, ...newFilters } *)
setFilter(s, nf) ==
  [s EXCEPT !.filters =
     [tab |-> IF "tab" \in DOMAIN nf THEN nf.tab ELSE @.tab,
      page |-> IF "page" \in DOMAIN nf THEN nf.page ELSE @.page,
      size |-> IF "size" \in DOMAIN nf THEN nf.size ELSE @.size]]

setPage(s, page) == setFilter(s, [page |-> page])

(* setPageSize without the reset of the page *)
setPageSize_keepPage(s, size) == setFilter(s, [size |-> size])

setPageSize(s, size) == setFilter(s, [size |-> size, page |-> 1])

setStatusFilter(s, tab) == setFilter(s, [tab |-> tab, page |-> 1])

(* ---- frames, JSON.parse and the classifier ---- *)
(* A raw frame: the event name of the stream and the text of its data     *)
(* field.  The texts are the shapes a data field can have.                *)
RawKinds == {"garbage", "null", "number", "emptyObject", "taskString",
             "taskNull", "taskObject"}
(* the tasks the server announces and returns in these runs *)
FrameTasks == [id : TaskIds, status : {"OPEN"}, title : {"A"}]
RawPayloads ==
  [kind : RawKinds \ {"taskObject"}, task : {NoTask}]
    \cup [kind : {"taskObject"}, task : FrameTasks]

(* JSON.parse(event.data): throws on text that is not JSON, else the value *)
(* as typeof sees it, with the member 'task' when there is one.           *)
JSONparse(raw) ==
  CASE raw.kind = "garbage" ->
         [ok |-> FALSE, type |-> "undefined", hasTask |-> FALSE,
          taskType |-> "undefined", task |-> NoTask]
    [] raw.kind = "null" ->
         [ok |-> TRUE, type |-> "null", hasTask |-> FALSE,
          taskType |-> "undefined", task |-> NoTask]
    [] raw.kind = "number" ->
         [ok |-> TRUE, type |-> "number", hasTask |-> FALSE,
          taskType |-> "undefined", task |-> NoTask]
    [] raw.kind = "emptyObject" ->
         [ok |-> TRUE, type |-> "object", hasTask |-> FALSE,
          taskType |-> "undefined", task |-> NoTask]
    [] raw.kind = "taskString" ->
         [ok |-> TRUE, type |-> "object", hasTask |-> TRUE,
          taskType |-> "string", task |-> NoTask]
    [] raw.kind = "taskNull" ->
         [ok |-> TRUE, type |-> "object", hasTask |-> TRUE,
          taskType |-> "null", task |-> NoTask]
    [] OTHER ->
         [ok |-> TRUE, type |-> "object", hasTask |-> TRUE,
          taskType |-> "object", task |-> raw.task]

(* the kinds of value typeof and the in operator tell apart *)
JsTypes == {"undefined", "null", "number", "string", "array", "object"}

(* typeof v === 'object' holds of objects, of arrays and of null *)
TypeofObject(type) == type \in {"object", "array", "null"}

(* v != null fails for null and for undefined *)
NotNullish(type) == type \notin {"null", "undefined"}

(* A value as the classifier sees it: its kind, whether it has the members *)
(* 'event' and 'data', and what they hold.                                 *)
isTaskEvent(ev) ==
  /\ NotNullish(ev.type)
  /\ TypeofObject(ev.type)
  /\ ev.hasEvent
  /\ ev.eventType = "string"
  /\ ev.event \in SSE_TASK_EVENT_TYPES
  /\ ev.hasData
  /\ NotNullish(ev.data.type)
  /\ TypeofObject(ev.data.type)
  /\ ev.data.hasTask
  /\ TypeofObject(ev.data.taskType)

handleSSETaskEvent(s, ev) ==
  IF ~isTaskEvent(ev) THEN s
  ELSE CASE ev.event = "task_created" -> handleTaskCreated(s, ev.data.task)
         [] ev.event = "task_updated" -> handleTaskUpdated(s, ev.data.task)
         [] ev.event = "task_deleted" -> handleTaskDeleted(s, ev.data.task)
         [] OTHER -> s

(* the handlers a consumer registers: the one of useTaskSSE, and one that  *)
(* throws on every event                                                   *)
Handlers == {"handleSSETaskEvent", "throwingHandler"}

(* eventHandlers.value is a Set: it iterates in insertion order *)
IndexOf(hs, h) == CHOOSE i \in 1..Len(hs) : hs[i] = h
InSeq(hs, h) == \E i \in 1..Len(hs) : hs[i] = h
Members(hs) == {hs[i] : i \in 1..Len(hs)}

(* forEach(handler => { try { handler(eventData) } catch { log } }) *)
RECURSIVE forEachHandler(_, _, _)
forEachHandler(s, hs, ev) ==
  IF hs = <<>> THEN s
  ELSE LET h == Head(hs)
           s1 == [s EXCEPT !.calls = @ \cup {h}]
           s2 == IF h = "handleSSETaskEvent"
                 THEN handleSSETaskEvent(s1, ev)
                 ELSE [s1 EXCEPT !.thrown = @ \cup {h}]
       IN forEachHandler(s2, Tail(hs), ev)

(* forEach without the try around handler(eventData): the exception ends  *)
(* the loop and reaches the catch of onMessage                             *)
handleSSEEvent_noCatch(s, ev) ==
  IF ~InSeq(s.eventHandlers, "throwingHandler")
  THEN forEachHandler(s, s.eventHandlers, ev)
  ELSE LET i == IndexOf(s.eventHandlers, "throwingHandler")
           s1 == forEachHandler(s, SubSeq(s.eventHandlers, 1, i - 1), ev)
       IN [s1 EXCEPT !.calls = @ \cup {"throwingHandler"},
                     !.thrown = @ \cup {"throwingHandler"},
                     !.lastError = ERR_PARSE]

handleSSEEvent(s, ev) == forEachHandler(s, s.eventHandlers, ev)

(* { event: event.type, data } *)
MkEvent(type, data) ==
  [type |-> "object", hasEvent |-> TRUE, eventType |-> "string",
   event |-> type, hasData |-> TRUE, data |-> data]

(* onMessage treating a decode failure as a failed attempt *)
onMessage_countsRetry(s, frame) ==
  LET data == JSONparse(frame.data)
  IN IF data.ok
     THEN handleSSEEvent(s, MkEvent(frame.type, data))
     ELSE [s EXCEPT !.lastError = ERR_PARSE, !.retryCount = @ + 1]

onMessage(s, frame) ==
  LET data == JSONparse(frame.data)
  IN IF data.ok
     THEN handleSSEEvent(s, MkEvent(frame.type, data))
     ELSE [s EXCEPT !.lastError = ERR_PARSE]

(* onMessage registered for every event name of the stream *)
Listens_all(type) == TRUE

(* events.forEach(event => addEventListener(event, onMessage)): the names *)
(* the transport listens to, events being [...SSE_TASK_EVENT_TYPES]       *)
Listens(type) == type \in SSE_TASK_EVENT_TYPES

(* Set.add: a handler already registered keeps its place *)
addEventHandler(s, h) ==
  IF InSeq(s.eventHandlers, h) THEN s
  ELSE [s EXCEPT !.eventHandlers = Append(@, h)]

RECURSIVE Without(_, _)
Without(hs, h) ==
  IF hs = <<>> THEN <<>>
  ELSE IF Head(hs) = h THEN Without(Tail(hs), h)
       ELSE <<Head(hs)>> \o Without(Tail(hs), h)

(* Set.delete *)
removeEventHandler(s, h) == [s EXCEPT !.eventHandlers = Without(@, h)]

(* the event names the server can put on a frame; a frame without an      *)
(* event field has the name 'message'                                     *)
StreamEventNames == SSE_TASK_EVENT_TYPES \cup {"message", "task_archived"}
Frames == [type : StreamEventNames, data : RawPayloads]
NoFrame == [type |-> "none", data |-> [kind |-> "null", task |-> NoTask]]

(* what a pull can answer *)
PullPages ==
  {[present |-> TRUE, items |-> <<>>, total |-> 0]}
    \cup {[present |-> TRUE, items |-> <<t>>, total |-> 1] : t \in FrameTasks}
PullCounts ==
  {[present |-> TRUE, total |-> 0, OPEN |-> 0, IN_PROGRESS |-> 0, DONE |-> 0],
   [present |-> TRUE, total |-> 1, OPEN |-> 1, IN_PROGRESS |-> 0, DONE |-> 0]}

InitFilters == {[tab |-> "ALL", page |-> 1, size |-> 12],
                [tab |-> "OPEN", page |-> 1, size |-> 12]}

(* ---- what the server announces and answers in the runs over the cache ---- *)
ItemIds == 1..MaxItems
CacheStatuses == {"OPEN", "DONE"}
(* task_created and task_deleted carry the whole task *)
EntityPayloads == [id : ItemIds, status : CacheStatuses, title : {"A"}]
(* task_updated carries the id and the fields that changed *)
UpdatePayloads ==
  {t \in [id : ItemIds, status : {"undefined", "DONE"}, title : {"undefined", "B"}] :
     t.status # "undefined" \/ t.title # "undefined"}
CacheFrames ==
  [type : {"task_created", "task_deleted"},
   data : [kind : {"taskObject"}, task : EntityPayloads]]
    \cup [type : {"task_updated"},
          data : [kind : {"taskObject"}, task : UpdatePayloads]]

(* the filter states of these runs: the view's initial one, a status tab, *)
(* and a page size of 1 set on the default ref({})                        *)
CacheFilters == {[tab |-> "ALL", page |-> 1, size |-> 12],
                 [tab |-> "OPEN", page |-> 1, size |-> 12],
                 [tab |-> "undefined", page |-> Undefined, size |-> 1]}

(* GET /tasks?status&page&size answers with at most size tasks, all of    *)
(* the status asked for                                                    *)
ViewStatus(f) == IF f.tab \in TaskStatus THEN f.tab ELSE "OPEN"
ServerItems(f, n) ==
  [i \in 1..n |-> [id |-> i, status |-> ViewStatus(f), title |-> "A"]]
ServerPages(f) ==
  {[present |-> TRUE, items |-> ServerItems(f, n), total |-> n] :
     n \in 0..Min(MaxItems, getTasksQueryKey(f).size)}
ServerCounts ==
  {[present |-> TRUE, total |-> 0, OPEN |-> 0, IN_PROGRESS |-> 0, DONE |-> 0],
   [present |-> TRUE, total |-> 2, OPEN |-> 1, IN_PROGRESS |-> 0, DONE |-> 1]}

(* ---- the values handed to the classifier ---- *)
NoData == [type |-> "undefined", hasTask |-> FALSE, taskType |-> "undefined",
           task |-> NoTask]
ProbeData ==
  [type : {"null", "number", "string", "array"}, hasTask : {FALSE},
   taskType : {"undefined"}, task : {NoTask}]
    \cup [type : {"object"}, hasTask : {FALSE}, taskType : {"undefined"},
          task : {NoTask}]
    \cup [type : {"object"}, hasTask : {TRUE}, taskType : JsTypes \ {"object"},
          task : {NoTask}]
    \cup [type : {"object"}, hasTask : {TRUE}, taskType : {"object"},
          task : FrameTasks]
ProbeValues ==
  [type : JsTypes \ {"object"}, hasEvent : {FALSE}, eventType : {"undefined"},
   event : {"none"}, hasData : {FALSE}, data : {NoData}]
    \cup [type : {"object"}, hasEvent : {FALSE}, eventType : {"undefined"},
          event : {"none"}, hasData : {TRUE}, data : ProbeData]
    \cup [type : {"object"}, hasEvent : {TRUE}, eventType : {"number"},
          event : {"none"}, hasData : {TRUE}, data : ProbeData]
    \cup [type : {"object"}, hasEvent : {TRUE}, eventType : {"string"},
          event : StreamEventNames, hasData : {FALSE}, data : {NoData}]
    \cup [type : {"object"}, hasEvent : {TRUE}, eventType : {"string"},
          event : StreamEventNames, hasData : {TRUE}, data : ProbeData]
NoProbe == [in |-> [type |-> "undefined", hasEvent |-> FALSE,
                    eventType |-> "undefined", event |-> "none",
                    hasData |-> FALSE, data |-> NoData],
            out |-> "none"]

(* the page under the key of the current filters, and the counts *)
CurrentPage == tasksData[getTasksQueryKey(filters)]
Snapshot == [filters |-> filters, tasks |-> tasksData, counts |-> countsData]

(* ---- the API, the queries and the mutations ---- *)
EmptyServer == [tasks |-> <<>>, nextId |-> 1]
NoMutation == [kind |-> "none", phase |-> "none", task |-> NoTask, issued |-> 0]
IdleTasksQuery == [state |-> "idle", data |-> NoPage]
IdleCountsQuery == [state |-> "idle", data |-> NoCounts]
(* no query has been answered yet *)
ColdCache == [k \in QueryKeys |-> NoPage]

InitWith(fs, ps, svs, cs) ==
  /\ eventSource = Null
  /\ isConnected = FALSE
  /\ isConnecting = FALSE
  /\ retryCount = 0
  /\ lastError = NoError
  /\ nextRetryIn = Undefined
  /\ retryTimer = Null
  /\ retryCountdownTimer = Null
  /\ sources = [i \in SourceIds |-> "CLOSED"]
  /\ timeouts = [i \in TimerIds |-> 0]
  /\ intervals = {}
  /\ eventHandlers = <<>>
  /\ filters \in fs
  /\ tasksData \in cs
  /\ countsData = NoCounts
  /\ lastOp = "init"
  /\ errRun = <<>>
  /\ lastFrame = NoFrame
  /\ calls = {}
  /\ reconciled = {}
  /\ pre = [status |-> "disconnected", timerPending |-> FALSE, hadSource |-> FALSE]
  /\ exhausted = FALSE
  /\ thrown = {}
  /\ prevCache = [filters |-> filters, tasks |-> tasksData, counts |-> NoCounts]
  /\ pulled = NoPage
  /\ pushes = 0
  /\ probe \in ps
  /\ server \in svs
  /\ stream = <<>>
  /\ mutation = NoMutation
  /\ tasksQuery = IdleTasksQuery
  /\ countsQuery = IdleCountsQuery

(* the state after construction *)
Init == InitWith(InitFilters, {NoProbe}, {EmptyServer}, {ColdCache})

(* bookkeeping shared by the actions: what ran, and what it started from *)
Note(op, frame) ==
  /\ lastOp' = op
  /\ lastFrame' = frame
  /\ pre' = [status |-> status, timerPending |-> retryTimer # Null,
             hadSource |-> eventSource # Null]
  /\ exhausted' = IF op = "forceReconnect" THEN FALSE
                  ELSE exhausted \/ retryCount' >= MAX_RETRIES
  /\ prevCache' = Snapshot
  /\ UNCHANGED probe

Record(op, frame) ==
  /\ Note(op, frame)
  /\ pulled' = NoPage
  /\ UNCHANGED pushes
  /\ UNCHANGED netVars

Connect ==
  /\ FreeSourceIds(Cur) # {}
  /\ Assign(connect(Cur))
  /\ Record("connect", NoFrame)
  /\ UNCHANGED errRun

Disconnect ==
  /\ Assign(disconnect(Cur))
  /\ Record("disconnect", NoFrame)
  /\ errRun' = <<>>

ForceReconnect ==
  /\ FreeSourceIds(disconnect(Cur)) # {}
  /\ Assign(forceReconnect(Cur))
  /\ Record("forceReconnect", NoFrame)
  /\ errRun' = <<>>

(* the transport reports that the connection is established *)
TransportOpen ==
  \E es \in SourceIds :
    /\ sources[es] = "CONNECTING"
    /\ Assign(onOpen([Cur EXCEPT !.sources[es] = "OPEN"]))
    /\ Record("open", NoFrame)
    /\ errRun' = <<>>

(* the transport reports an error: the browser either retries the request  *)
(* itself (CONNECTING) or gives up (CLOSED), and then runs the listener    *)
TransportError ==
  \E es \in SourceIds, rs \in {"CONNECTING", "CLOSED"} :
    /\ sources[es] # "CLOSED"
    /\ Cardinality(FreeTimerIds(Cur)) >= 2
    /\ LET s == onError([Cur EXCEPT !.sources[es] = rs])
       IN /\ Assign(s)
          /\ errRun' = IF s.retryTimer # Null
                       THEN Append(errRun, s.timeouts[s.retryTimer])
                       ELSE errRun
    /\ Record("error", NoFrame)

(* a live timeout expires: the browser retires it and runs its callback *)
RetryTimerFires ==
  \E tm \in TimerIds :
    /\ timeouts[tm] # 0
    /\ FreeSourceIds(Cur) # {}
    /\ Assign(retryTimerCallback([Cur EXCEPT !.timeouts[tm] = 0]))
    /\ Record("retryTimer", NoFrame)
    /\ UNCHANGED errRun

(* a live interval ticks *)
CountdownTick ==
  \E iv \in intervals :
    /\ Assign(countdownCallback(Cur))
    /\ Record("tick", NoFrame)
    /\ UNCHANGED errRun

(* the transport surfaces a frame; the listener runs for the names it was  *)
(* registered for                                                          *)
TransportMessage ==
  \E es \in SourceIds, frame \in Frames :
    /\ sources[es] = "OPEN"
    /\ frame.data.kind = "taskObject" /\ frame.type = "task_created"
         => /\ countsData.total < MaxCount
            /\ countsData[frame.data.task.status] < MaxCount
    /\ Assign(IF Listens(frame.type) THEN onMessage(Cur, frame) ELSE Cur)
    /\ Record("message", frame)
    /\ UNCHANGED errRun

AddEventHandler ==
  \E h \in Handlers :
    /\ Assign(addEventHandler(Cur, h))
    /\ Record("addEventHandler", NoFrame)
    /\ UNCHANGED errRun

RemoveEventHandler ==
  \E h \in Handlers :
    /\ Assign(removeEventHandler(Cur, h))
    /\ Record("removeEventHandler", NoFrame)
    /\ UNCHANGED errRun

(* the query of the current page resolves with p and replaces the entry *)
setTasksData(s, p) == [s EXCEPT !.tasksData[getTasksQueryKey(s.filters)] = p]

setCountsData(s, c) == [s EXCEPT !.countsData = c]

ResolveTasks(pages) ==
  \E p \in pages :
    /\ Assign(setTasksData(Cur, p))
    /\ Note("pullTasks", NoFrame)
    /\ pulled' = p
    /\ UNCHANGED <<pushes, errRun, netVars>>

ResolveTaskCounts(counts) ==
  \E c \in counts :
    /\ Assign(setCountsData(Cur, c))
    /\ Record("pullCounts", NoFrame)
    /\ UNCHANGED errRun

PullTasks == ResolveTasks(PullPages)

PullTaskCounts == ResolveTaskCounts(PullCounts)

(* onMounted of useTaskSSE: addEventHandler(handleSSETaskEvent); connect() *)
onMounted(s) == connect(addEventHandler(s, "handleSSETaskEvent"))

Mount ==
  /\ FreeSourceIds(Cur) # {}
  /\ Assign(onMounted(Cur))
  /\ Record("mount", NoFrame)
  /\ UNCHANGED errRun

(* the transport surfaces a task event; a run reconciles MaxPushes of them *)
PushFrom(frames) ==
  \E es \in SourceIds, frame \in frames :
    /\ sources[es] = "OPEN"
    /\ pushes < MaxPushes
    /\ Assign(IF Listens(frame.type) THEN onMessage(Cur, frame) ELSE Cur)
    /\ Note("message", frame)
    /\ pulled' = NoPage
    /\ pushes' = pushes + 1
    /\ UNCHANGED <<errRun, netVars>>

PushEvent == PushFrom(CacheFrames)

FetchTasks == ResolveTasks(ServerPages(filters))

FetchTaskCounts == ResolveTaskCounts(ServerCounts)

(* the classifier is applied to the value under probe *)
Classify ==
  /\ probe.out = "pending"
  /\ probe' = [probe EXCEPT !.out = IF isTaskEvent(probe.in)
                                     THEN "accepted" ELSE "rejected"]
  /\ UNCHANGED <<connVars, envVars, eventHandlers, cacheVars, lastOp, errRun,
                 lastFrame, calls, reconciled, pre, exhausted, thrown,
                 prevCache, pulled, pushes, netVars>>

(* The connection manager under every transport and timer event; no pull  *)
(* resolves, so the frames meet an empty cache.                            *)
Next ==
  \/ Connect
  \/ Disconnect
  \/ ForceReconnect
  \/ TransportOpen
  \/ TransportError
  \/ RetryTimerFires
  \/ CountdownTick
  \/ TransportMessage
  \/ AddEventHandler
  \/ RemoveEventHandler

Spec == Init /\ [][Next]_vars

(* The dispatcher and the reconciler over a cache that pulls fill, on a    *)
(* transport that reports no error.                                        *)
NextDispatch ==
  \/ Connect
  \/ TransportOpen
  \/ TransportMessage
  \/ AddEventHandler
  \/ RemoveEventHandler
  \/ PullTasks
  \/ PullTaskCounts

SpecDispatch == Init /\ [][NextDispatch]_vars

(* The reconciler over the cache of a mounted view: pulls answer with      *)
(* pages of up to MaxItems tasks, the stream announces whole tasks and     *)
(* partial updates.                                                        *)
InitCache == InitWith(CacheFilters, {NoProbe}, {EmptyServer}, {ColdCache})

NextCache ==
  \/ Mount
  \/ TransportOpen
  \/ PushEvent
  \/ FetchTasks
  \/ FetchTaskCounts

SpecCache == InitCache /\ [][NextCache]_vars

(* The classifier over the values a handler can be handed. *)
InitClassify ==
  InitWith(InitFilters, [in : ProbeValues, out : {"pending"}], {EmptyServer},
           {ColdCache})

NextClassify == Classify

SpecClassify == InitClassify /\ [][NextClassify]_vars

(* ---- the API behind the pulls and the mutations ---- *)
MaxMutations == 2

(* the tasks of one status, in the order the API stores them *)
RECURSIVE OfStatus(_, _)
OfStatus(items, st) ==
  IF items = <<>> THEN <<>>
  ELSE IF st = "undefined" \/ Head(items).status = st
       THEN <<Head(items)>> \o OfStatus(Tail(items), st)
       ELSE OfStatus(Tail(items), st)

(* GET /tasks?status&page&size: the page of the tasks of that status *)
ServerPage(sv, f) ==
  LET key == getTasksQueryKey(f)
      all == OfStatus(sv.tasks, key.status)
      from == (key.page - 1) * key.size + 1
      to == Min(Len(all), key.page * key.size)
  IN [present |-> TRUE, items |-> SubSeq(all, from, to), total |-> Len(all)]

(* GET /tasks/counts *)
ServerCountsOf(sv) ==
  [present |-> TRUE, total |-> Len(sv.tasks),
   OPEN |-> Len(OfStatus(sv.tasks, "OPEN")),
   IN_PROGRESS |-> Len(OfStatus(sv.tasks, "IN_PROGRESS")),
   DONE |-> Len(OfStatus(sv.tasks, "DONE"))]

FindTask(items, id) == items[CHOOSE i \in 1..Len(items) : items[i].id = id]

(* the task a request is about once the API has carried it out: POST      *)
(* gives the task a fresh id and the status OPEN, PUT merges the fields    *)
(* sent, DELETE answers for the task it removed                            *)
serverResult(sv, kind, task) ==
  CASE kind = "create" -> [id |-> sv.nextId, status |-> "OPEN", title |-> task.title]
    [] kind = "update" -> MergeTask(FindTask(sv.tasks, task.id), task)
    [] kind = "delete" -> FindTask(sv.tasks, task.id)

(* POST /tasks, PUT /tasks/:id, DELETE /tasks/:id on the stored tasks *)
serverApply(sv, kind, task) ==
  LET t == serverResult(sv, kind, task)
  IN CASE kind = "create" ->
            [tasks |-> <<t>> \o sv.tasks, nextId |-> sv.nextId + 1]
       [] kind = "update" ->
            [sv EXCEPT !.tasks =
               [i \in 1..Len(sv.tasks) |->
                  IF sv.tasks[i].id = task.id THEN t ELSE sv.tasks[i]]]
       [] kind = "delete" ->
            [sv EXCEPT !.tasks = RemoveId(sv.tasks, task.id)]

(* the frame the API sends to the subscribers for a request it carried out *)
serverFrame(kind, t) ==
  [type |-> CASE kind = "create" -> "task_created"
              [] kind = "update" -> "task_updated"
              [] kind = "delete" -> "task_deleted",
   data |-> [kind |-> "taskObject", task |-> t]]

(* the API can carry out a request: a task to change or remove exists *)
serverAccepts(sv, kind, task) ==
  kind = "create" \/ HasId(sv.tasks, task.id)

(* ---- the queries and the mutations of the client ---- *)
(* invalidateQueries that never cancels a fetch in flight *)
invalidateQueries_noCancel(q, old, none) ==
  IF q.state = "idle" THEN [state |-> "requested", data |-> none] ELSE q

(* invalidateQueries({queryKey}): the active query is fetched again.  A   *)
(* fetch in flight is cancelled and started anew when the entry has data  *)
(* (cancelRefetch); for an entry without data the fetch in flight goes on *)
(* and its answer is the one that counts                                   *)
invalidateQueries(q, old, none) ==
  IF q.state = "idle" \/ old.present
  THEN [state |-> "requested", data |-> none]
  ELSE q

(* onSuccess that invalidates ['tasks'] only *)
onMutationSuccess_tasksOnly(qs, s) ==
  [qs EXCEPT !.tasks =
     invalidateQueries(qs.tasks, s.tasksData[getTasksQueryKey(s.filters)], NoPage)]

(* onSuccess of the three mutations: both keys are invalidated *)
onMutationSuccess(qs, s) ==
  [tasks |-> invalidateQueries(qs.tasks, s.tasksData[getTasksQueryKey(s.filters)], NoPage),
   counts |-> invalidateQueries(qs.counts, s.countsData, NoCounts)]

(* onError of the three mutations: a toast, no query is touched *)
onMutationError(qs, s) == qs

(* what the user can send: a new task, a change of status or a removal of *)
(* a task of the page on screen                                            *)
MutationRequests(page) ==
  {[kind |-> "create", task |-> [id |-> Undefined, status |-> "undefined", title |-> "A"]]}
    \cup {[kind |-> "update", task |-> [id |-> page.items[i].id, status |-> "DONE", title |-> "undefined"]] :
            i \in 1..Len(page.items)}
    \cup {[kind |-> "delete", task |-> [id |-> page.items[i].id, status |-> "undefined", title |-> "undefined"]] :
            i \in 1..Len(page.items)}

MutateFilters == {[tab |-> "ALL", page |-> 1, size |-> 12]}
MutateServers ==
  {EmptyServer,
   [tasks |-> <<[id |-> 1, status |-> "OPEN", title |-> "A"]>>, nextId |-> 2]}

(* the transport has opened: frames can be surfaced *)
Subscribed == \E es \in SourceIds : sources[es] = "OPEN"

(* a step of the pull and mutation path: the connection is untouched *)
NetStep(op, frame) ==
  /\ Note(op, frame)
  /\ UNCHANGED <<pushes, errRun>>

(* the active query is fetched: on mount, on focus, when stale *)
Refetch ==
  /\ tasksQuery.state = "idle"
  /\ tasksQuery' = [tasksQuery EXCEPT !.state = "requested"]
  /\ Assign(Cur)
  /\ NetStep("request", NoFrame)
  /\ pulled' = NoPage
  /\ UNCHANGED <<server, stream, mutation, countsQuery>>

RefetchCounts ==
  /\ countsQuery.state = "idle"
  /\ countsQuery' = [countsQuery EXCEPT !.state = "requested"]
  /\ Assign(Cur)
  /\ NetStep("request", NoFrame)
  /\ pulled' = NoPage
  /\ UNCHANGED <<server, stream, mutation, tasksQuery>>

(* the API answers the request of the page with what it stores then *)
ServeTasks ==
  /\ tasksQuery.state = "requested"
  /\ tasksQuery' = [state |-> "answered", data |-> ServerPage(server, filters)]
  /\ Assign(Cur)
  /\ NetStep("request", NoFrame)
  /\ pulled' = NoPage
  /\ UNCHANGED <<server, stream, mutation, countsQuery>>

ServeCounts ==
  /\ countsQuery.state = "requested"
  /\ countsQuery' = [state |-> "answered", data |-> ServerCountsOf(server)]
  /\ Assign(Cur)
  /\ NetStep("request", NoFrame)
  /\ pulled' = NoPage
  /\ UNCHANGED <<server, stream, mutation, tasksQuery>>

(* the answer arrives and replaces the entry of the key *)
ReceiveTasks ==
  /\ tasksQuery.state = "answered"
  /\ Assign(setTasksData(Cur, tasksQuery.data))
  /\ tasksQuery' = IdleTasksQuery
  /\ NetStep("pullTasks", NoFrame)
  /\ pulled' = tasksQuery.data
  /\ UNCHANGED <<server, stream, mutation, countsQuery>>

ReceiveCounts ==
  /\ countsQuery.state = "answered"
  /\ Assign(setCountsData(Cur, countsQuery.data))
  /\ countsQuery' = IdleCountsQuery
  /\ NetStep("pullCounts", NoFrame)
  /\ pulled' = NoPage
  /\ UNCHANGED <<server, stream, mutation, tasksQuery>>

(* mutate(): the request leaves for the API *)
Mutate ==
  \E r \in MutationRequests(CurrentPage) :
    /\ mutation.phase = "none"
    /\ mutation.issued < MaxMutations
    /\ mutation' = [kind |-> r.kind, phase |-> "sent", task |-> r.task,
                    issued |-> mutation.issued + 1]
    /\ Assign(Cur)
    /\ NetStep("request", NoFrame)
    /\ pulled' = NoPage
    /\ UNCHANGED <<server, stream, tasksQuery, countsQuery>>

(* the API carries the request out and sends the frame to the transport  *)
(* that is open                                                            *)
ServerAccept ==
  LET t == serverResult(server, mutation.kind, mutation.task)
  IN /\ mutation.phase = "sent"
     /\ serverAccepts(server, mutation.kind, mutation.task)
     /\ server' = serverApply(server, mutation.kind, mutation.task)
     /\ stream' = IF Subscribed
                  THEN Append(stream, serverFrame(mutation.kind, t))
                  ELSE stream
     /\ mutation' = [mutation EXCEPT !.phase = "accepted", !.task = t]
     /\ Assign(Cur)
     /\ NetStep("request", NoFrame)
     /\ pulled' = NoPage
     /\ UNCHANGED <<tasksQuery, countsQuery>>

(* the API refuses the request, or the request fails on its way *)
ServerReject ==
  /\ mutation.phase = "sent"
  /\ mutation' = [mutation EXCEPT !.phase = "rejected"]
  /\ Assign(Cur)
  /\ NetStep("request", NoFrame)
  /\ pulled' = NoPage
  /\ UNCHANGED <<server, stream, tasksQuery, countsQuery>>

(* the promise of mutationFn settles: onSuccess or onError runs *)
MutationSettles ==
  LET qs == [tasks |-> tasksQuery, counts |-> countsQuery]
      ok == mutation.phase = "accepted"
      qs2 == IF ok THEN onMutationSuccess(qs, Cur) ELSE onMutationError(qs, Cur)
  IN /\ mutation.phase \in {"accepted", "rejected"}
     /\ tasksQuery' = qs2.tasks
     /\ countsQuery' = qs2.counts
     /\ mutation' = [NoMutation EXCEPT !.issued = mutation.issued]
     /\ Assign(Cur)
     /\ NetStep(IF ok THEN "mutationSuccess" ELSE "mutationError", NoFrame)
     /\ pulled' = NoPage
     /\ UNCHANGED <<server, stream>>

(* the transport surfaces the next frame of the stream *)
DeliverPush ==
  /\ stream # <<>>
  /\ Subscribed
  /\ Assign(IF Listens(Head(stream).type) THEN onMessage(Cur, Head(stream)) ELSE Cur)
  /\ stream' = Tail(stream)
  /\ NetStep("message", Head(stream))
  /\ pulled' = NoPage
  /\ UNCHANGED <<server, mutation, tasksQuery, countsQuery>>

InitMutate == InitWith(MutateFilters, {NoProbe}, MutateServers, {ColdCache})

NextMutate ==
  \/ Mount
  \/ TransportOpen
  \/ Refetch
  \/ RefetchCounts
  \/ ServeTasks
  \/ ServeCounts
  \/ ReceiveTasks
  \/ ReceiveCounts
  \/ Mutate
  \/ ServerAccept
  \/ ServerReject
  \/ MutationSettles
  \/ DeliverPush

SpecMutate == InitMutate /\ [][NextMutate]_vars

(* the page of the view under the mutations: the counts entry changes     *)
(* independently of the page and its pulls are left to SpecMutate          *)
NextMutatePage ==
  \/ Mount
  \/ TransportOpen
  \/ Refetch
  \/ ServeTasks
  \/ ReceiveTasks
  \/ Mutate
  \/ ServerAccept
  \/ ServerReject
  \/ MutationSettles
  \/ DeliverPush

(* the step that takes the head frame off the stream: DeliverPush is the  *)
(* only step that does, and it can be taken whenever this one can          *)
FrameSurfaced ==
  /\ stream # <<>>
  /\ Subscribed
  /\ stream' = Tail(stream)

(* every request is answered, every answer and every frame received is    *)
(* handed to its callback                                                  *)
FairMutate ==
  /\ WF_vars(ServeTasks)
  /\ WF_vars(ReceiveTasks)
  /\ WF_vars(ServerAccept \/ ServerReject)
  /\ WF_vars(MutationSettles)
  /\ WF_stream(FrameSurfaced)

SpecMutateFair == InitMutate /\ [][NextMutatePage]_vars /\ FairMutate

(* ---- the view changing its filter state over a cache in use ---- *)
(* every state of the filter ref, a field being set or not *)
FilterStates ==
  [tab : TaskTabs \cup {"undefined"}, page : Pages \cup {Undefined},
   size : PageSizes \cup {Undefined}]

ViewServer ==
  [tasks |-> <<[id |-> 2, status |-> "DONE", title |-> "A"],
               [id |-> 1, status |-> "OPEN", title |-> "A"]>>,
   nextId |-> 3]

(* every query has been answered once *)
WarmCache ==
  [k \in QueryKeys |->
     ServerPage(ViewServer, [tab |-> k.status, page |-> k.page, size |-> k.size])]

ViewFrames ==
  {[type |-> "task_created",
    data |-> [kind |-> "taskObject",
              task |-> [id |-> 3, status |-> "OPEN", title |-> "A"]]],
   [type |-> "task_updated",
    data |-> [kind |-> "taskObject",
              task |-> [id |-> 2, status |-> "undefined", title |-> "B"]]]}

SetPage ==
  \E page \in Pages :
    /\ Assign(setPage(Cur, page))
    /\ Record("setPage", NoFrame)
    /\ UNCHANGED errRun

SetPageSize ==
  \E size \in PageSizes :
    /\ Assign(setPageSize(Cur, size))
    /\ Record("setPageSize", NoFrame)
    /\ UNCHANGED errRun

SetStatusFilter ==
  \E tab \in TaskTabs :
    /\ Assign(setStatusFilter(Cur, tab))
    /\ Record("setStatusFilter", NoFrame)
    /\ UNCHANGED errRun

PushView == PushFrom(ViewFrames)

FetchView == ResolveTasks({ServerPage(server, filters)})

InitView == InitWith(FilterStates, {NoProbe}, {ViewServer}, {WarmCache})

NextView ==
  \/ Mount
  \/ TransportOpen
  \/ PushView
  \/ FetchView
  \/ SetPage
  \/ SetPageSize
  \/ SetStatusFilter

SpecView == InitView /\ [][NextView]_vars

(* ---- helpers of the properties ---- *)
OpenSources == {es \in SourceIds : sources[es] # "CLOSED"}
LiveTimeouts == {i \in TimerIds : timeouts[i] # 0}
(* nothing the browser could still call back into *)
Torn == OpenSources = {} /\ LiveTimeouts = {} /\ intervals = {}

(* C1: in a run of consecutive transport errors (no open, disconnect or   *)
(* forceReconnect in between) the n-th error, n from 0, schedules a retry *)
(* after exactly min(1000 * 2^n, 30000) ms and leaves retryCount = n + 1; *)
(* five errors give 1000, 2000, 4000, 8000, 16000 and retryCount = 5.     *)
C1_BackoffDelays ==
  /\ Len(errRun) = retryCount
  /\ \A i \in 1..Len(errRun) :
       errRun[i] = IF 1000 * 2^(i - 1) < 30000 THEN 1000 * 2^(i - 1) ELSE 30000
  /\ Len(errRun) = 5 =>
       errRun = <<1000, 2000, 4000, 8000, 16000>> /\ retryCount = 5

C1_Witness == Len(errRun) = 6 /\ errRun[5] = 16000 /\ errRun[6] = 30000

(* C2: every transport error below MAX_RETRIES raises retryCount by       *)
(* exactly 1; retryCount never passes MAX_RETRIES; once it is reached the  *)
(* status is failed and no step schedules a timer any more.               *)
C2_RetryCountStepsToFailed ==
  [][ /\ (lastOp' = "error" /\ retryCount < MAX_RETRIES
            => retryCount' = retryCount + 1)
      /\ retryCount' <= MAX_RETRIES
      /\ (retryCount' >= MAX_RETRIES => status' = "failed")
      /\ (retryCount >= MAX_RETRIES
            => /\ \A i \in TimerIds : timeouts'[i] # 0 => timeouts'[i] = timeouts[i]
               /\ intervals' \subseteq intervals
               /\ retryTimer' \in {Null, retryTimer}
               /\ retryCountdownTimer' \in {Null, retryCountdownTimer}) ]_vars

C2_Witness ==
  /\ retryCount = MAX_RETRIES /\ status = "failed"
  /\ lastOp = "retryTimer" /\ pre.status = "failed" /\ LiveTimeouts = {}

(* C3: whatever the state forceReconnect is called in, it leaves          *)
(* retryCount = 0, no timer, and exactly one transport, freshly opened,   *)
(* with status connecting.                                                *)
C3_ForceReconnectRestarts ==
  lastOp = "forceReconnect" =>
    /\ retryCount = 0
    /\ status = "connecting"
    /\ eventSource # Null
    /\ OpenSources = {eventSource}
    /\ sources[eventSource] = "CONNECTING"
    /\ LiveTimeouts = {} /\ intervals = {}
    /\ retryTimer = Null /\ retryCountdownTimer = Null
    /\ nextRetryIn = Undefined

C3_Witness ==
  lastOp = "forceReconnect" /\ pre.status = "failed" /\ pre.timerPending

(* C4 as stated: once the retries ran out, nothing but forceReconnect     *)
(* opens a transport again.                                               *)
C4_Original == exhausted => eventSource = Null

(* C4, amended: while retryCount >= MAX_RETRIES the status is failed and  *)
(* no transport exists; a timer callback or a plain connect() opens none; *)
(* only forceReconnect opens a transport from there, and only              *)
(* forceReconnect or disconnect lowers retryCount.                        *)
C4_FailedUntilReset ==
  [][ retryCount >= MAX_RETRIES =>
        /\ status = "failed" /\ eventSource = Null /\ OpenSources = {}
        /\ (eventSource' # Null \/ OpenSources' # {}
              => lastOp' = "forceReconnect")
        /\ (retryCount' < MAX_RETRIES
              => lastOp' \in {"forceReconnect", "disconnect"})
        /\ (lastOp' \in {"connect", "retryTimer", "tick"}
              => status' = "failed" /\ eventSource' = Null) ]_vars

C4_Witness ==
  /\ lastOp = "connect" /\ pre.status = "failed"
  /\ status = "failed" /\ eventSource = Null /\ retryCount = MAX_RETRIES

(* C5: disconnect leaves no timer and no transport behind, so that no     *)
(* callback scheduled before it can run; from then on the status stays    *)
(* disconnected and the connection state is untouched until connect or   *)
(* forceReconnect is called.                                              *)
C5_TeardownCancelsCallbacks ==
  [][ /\ (lastOp' = "disconnect"
            => /\ Torn' /\ status' = "disconnected"
               /\ eventSource' = Null
               /\ retryTimer' = Null /\ retryCountdownTimer' = Null)
      /\ (Torn /\ status = "disconnected"
            => /\ lastOp' \notin {"open", "error", "message", "retryTimer", "tick"}
               /\ (lastOp' \notin {"connect", "forceReconnect"}
                     => Torn' /\ status' = "disconnected" /\ UNCHANGED connVars)) ]_vars

C5_Witness ==
  /\ lastOp = "disconnect" /\ pre.timerPending
  /\ status = "disconnected" /\ Torn

(* C6: connect called while connected, connecting or reconnecting changes *)
(* nothing: no transport is created, no field and no timer changes.       *)
C6_ConnectIdempotent ==
  [][ lastOp' = "connect" /\ status \in {"connected", "connecting", "reconnecting"}
        => UNCHANGED <<connVars, envVars, eventHandlers, cacheVars>> ]_vars

C6_Witness ==
  /\ lastOp = "connect" /\ pre.status = "connected"
  /\ status = "connected" /\ Cardinality(OpenSources) = 1

(* C7: at most one transport is open at any time.                         *)
C7_SingleTransport == Cardinality(OpenSources) <= 1

C7_Witness ==
  /\ lastOp = "retryTimer" /\ pre.timerPending
  /\ Cardinality(OpenSources) = 1 /\ retryCount > 0

(* C8: status connected implies retryCount = 0, and status failed implies *)
(* retryCount >= MAX_RETRIES.                                             *)
C8_StatusRetryCount ==
  /\ status = "connected" => retryCount = 0
  /\ status = "failed" => retryCount >= MAX_RETRIES

C8_Witness ==
  lastOp = "open" /\ pre.status = "reconnecting" /\ status = "connected"

(* C9: a frame whose event name is missing or is none of the three task   *)
(* events invokes no registered handler and no reconciler, and changes    *)
(* neither the cache nor retryCount.                                      *)
C9_MalformedFrameIgnored ==
  [][ (/\ lastOp' = "message"
       /\ lastFrame'.type \notin {"task_created", "task_updated", "task_deleted"})
        => (/\ calls' = {} /\ reconciled' = {}
            /\ UNCHANGED <<cacheVars, retryCount>>) ]_vars

C9_Witness ==
  /\ lastOp = "message" /\ lastFrame.type = "task_archived"
  /\ lastFrame.data.kind = "taskObject"
  /\ eventHandlers # <<>>
  /\ tasksData[getTasksQueryKey(filters)].present /\ countsData.present

(* C10: a frame whose payload does not decode sets lastError and is       *)
(* dropped: no handler and no reconciler runs, and retryCount, status,    *)
(* the transport, the timers and the cache are unchanged.                 *)
C10_DecodeFailureDropped ==
  [][ (/\ lastOp' = "message"
       /\ lastFrame'.type \in {"task_created", "task_updated", "task_deleted"}
       /\ lastFrame'.data.kind = "garbage")
        => (/\ lastError' = ERR_PARSE
            /\ calls' = {} /\ reconciled' = {}
            /\ status' = status
            /\ UNCHANGED <<retryCount, eventSource, isConnected, isConnecting,
                           retryTimer, retryCountdownTimer, nextRetryIn,
                           envVars, cacheVars>>) ]_vars

C10_Witness ==
  /\ lastOp = "message" /\ lastFrame.type = "task_created"
  /\ lastFrame.data.kind = "garbage"
  /\ lastError = ERR_PARSE /\ status = "connected"
  /\ eventHandlers # <<>>
  /\ tasksData[getTasksQueryKey(filters)].present /\ countsData.present

(* C11: when a registered handler throws while a frame is dispatched,     *)
(* every registered handler is still invoked for that frame, and neither  *)
(* status, retryCount, lastError nor the transport changes.               *)
C11_HandlerFailureIsolated ==
  [][ (lastOp' = "message" /\ thrown' # {})
        => (/\ calls' = Members(eventHandlers)
            /\ status' = status
            /\ UNCHANGED <<retryCount, lastError, eventSource, isConnected,
                           isConnecting, sources>>) ]_vars

C11_Witness ==
  /\ lastOp = "message" /\ lastFrame.type = "task_created"
  /\ eventHandlers = <<"throwingHandler", "handleSSETaskEvent">>
  /\ thrown = {"throwingHandler"}
  /\ calls = {"throwingHandler", "handleSSETaskEvent"}
  /\ reconciled = {"handleTaskCreated"}
  /\ status = "connected" /\ lastError = NoError

(* C12: the classifier accepts a value only if it is an object whose       *)
(* event is one of task_created, task_updated, task_deleted and whose data *)
(* is an object with an object-shaped task; every other value, a null     *)
(* task included, is rejected.                                            *)
C12_ClassifierAcceptsOnlyTaskEvents ==
  probe.out = "accepted" =>
    /\ probe.in.type = "object"
    /\ probe.in.hasEvent /\ probe.in.eventType = "string"
    /\ probe.in.event \in {"task_created", "task_updated", "task_deleted"}
    /\ probe.in.hasData /\ probe.in.data.type = "object"
    /\ probe.in.data.hasTask
    /\ probe.in.data.taskType \in {"object", "array"}

(* ---- helpers of the properties over the cache ---- *)
(* the last step reconciled a push event of this name *)
Pushed(type) == lastOp = "message" /\ lastFrame.type = type
EventTask == lastFrame.data.task
(* the page under the current key, and the cache, before the last step *)
PrevPage == prevCache.tasks[getTasksQueryKey(prevCache.filters)]
PrevCounts == prevCache.counts
OtherPagesKept ==
  \A k \in QueryKeys \ {getTasksQueryKey(filters)} : tasksData[k] = prevCache.tasks[k]
(* the view shows tasks of every status, or of the status of t *)
Shown(t) == filters.tab \in {"undefined", "ALL"} \/ filters.tab = t.status
Floor0(n) == IF n < 0 THEN 0 ELSE n
Ids(items) == [i \in 1..Len(items) |-> items[i].id]

(* C13: onCreated applied twice in a row with the same task changes        *)
(* nothing the second time: neither the page and its total, nor the total *)
(* and the status bucket of the counts.                                   *)
C13_CreatedTwiceIdempotent ==
  [][ (/\ Pushed("task_created")
       /\ lastOp' = "message" /\ lastFrame' = lastFrame)
        => UNCHANGED <<tasksData, countsData>> ]_vars

(* C14: onCreated, when the view shows the task's status, a page is cached *)
(* under the current key and the task's id is not in it, puts the task at *)
(* the head of the page and raises its total by 1; when the view is of    *)
(* another status no page changes.                                        *)
C14_CreatedPrepends ==
  Pushed("task_created") =>
    /\ (Shown(EventTask) /\ PrevPage.present /\ ~HasId(PrevPage.items, EventTask.id))
         => /\ CurrentPage.present
            /\ CurrentPage.items = <<EventTask>> \o PrevPage.items
            /\ CurrentPage.total = PrevPage.total + 1
            /\ OtherPagesKept
    /\ (filters.tab \in TaskStatus /\ filters.tab # EventTask.status)
         => tasksData = prevCache.tasks

C14_Witness ==
  /\ Pushed("task_created") /\ EventTask.id = 1
  /\ filters = [tab |-> "ALL", page |-> 1, size |-> 12]
  /\ PrevPage = [present |-> TRUE, items |-> <<>>, total |-> 0]
  /\ CurrentPage = [present |-> TRUE, items |-> <<EventTask>>, total |-> 1]

(* C15: onDeleted takes the item with the task's id out of the current    *)
(* page, the others keeping their order, lowers the page's total by 1 and *)
(* the counts' total and the task's status bucket by 1, none below 0.     *)
C15_DeletedRemoves ==
  Pushed("task_deleted") =>
    /\ PrevPage.present =>
         LET keep == {i \in 1..Len(PrevPage.items) :
                        PrevPage.items[i].id # EventTask.id}
         IN /\ CurrentPage.present
            /\ Len(CurrentPage.items) = Cardinality(keep)
            /\ \A i \in keep :
                  CurrentPage.items[Cardinality({j \in keep : j <= i})]
                    = PrevPage.items[i]
            /\ CurrentPage.total = Floor0(PrevPage.total - 1)
    /\ PrevCounts.present =>
         /\ countsData.present
         /\ countsData.total = Floor0(PrevCounts.total - 1)
         /\ \A b \in TaskStatus :
              countsData[b] = IF b = EventTask.status
                              THEN Floor0(PrevCounts[b] - 1) ELSE PrevCounts[b]

C15_Witness ==
  /\ Pushed("task_deleted") /\ EventTask.id = 2 /\ EventTask.status = "OPEN"
  /\ filters = [tab |-> "OPEN", page |-> 1, size |-> 12]
  /\ Ids(PrevPage.items) = <<1, 2, 3>> /\ PrevPage.total = 3
  /\ Ids(CurrentPage.items) = <<1, 3>> /\ CurrentPage.total = 2
  /\ PrevCounts.present /\ PrevCounts.OPEN = 1 /\ countsData.OPEN = 0

(* C16: onUpdated replaces in place the item of the current page with the *)
(* task's id by the item with the payload's fields laid over it, a field  *)
(* the payload lacks staying; the page's total, length and order, every   *)
(* other item and the counts stay, and without such an item the page      *)
(* stays.                                                                 *)
C16_UpdatedMergesInPlace ==
  Pushed("task_updated") =>
    /\ countsData = PrevCounts
    /\ OtherPagesKept
    /\ CurrentPage.present = PrevPage.present
    /\ CurrentPage.total = PrevPage.total
    /\ Len(CurrentPage.items) = Len(PrevPage.items)
    /\ \A i \in 1..Len(PrevPage.items) :
         LET old == PrevPage.items[i]
             new == CurrentPage.items[i]
         IN IF old.id # EventTask.id THEN new = old
            ELSE /\ new.id = old.id
                 /\ new.status = IF EventTask.status = "undefined"
                                  THEN old.status ELSE EventTask.status
                 /\ new.title = IF EventTask.title = "undefined"
                                 THEN old.title ELSE EventTask.title

C16_Witness ==
  /\ Pushed("task_updated") /\ EventTask.id = 2
  /\ EventTask.status = "undefined" /\ EventTask.title = "B"
  /\ Ids(PrevPage.items) = <<1, 2, 3>>
  /\ Ids(CurrentPage.items) = <<1, 2, 3>>
  /\ PrevPage.items[2].title = "A" /\ CurrentPage.items[2].title = "B"
  /\ CurrentPage.items[2].status = PrevPage.items[2].status
  /\ countsData.present

(* C17: whatever push events and pulls have run, the counts' total, OPEN, *)
(* IN_PROGRESS and DONE and the total of every cached page are >= 0.     *)
C17_CountsNeverNegative ==
  /\ countsData.total >= 0 /\ countsData.OPEN >= 0
  /\ countsData.IN_PROGRESS >= 0 /\ countsData.DONE >= 0
  /\ \A k \in QueryKeys : tasksData[k].total >= 0

C17_Witness ==
  /\ Pushed("task_deleted")
  /\ PrevCounts.present /\ PrevCounts.total = 0 /\ PrevCounts[EventTask.status] = 0
  /\ PrevPage.present /\ PrevPage.total = 0
  /\ countsData.total = 0 /\ CurrentPage.total = 0

(* C18 as stated: with no page cached under the current key, a push event *)
(* changes nothing.                                                       *)
C18_Original ==
  (lastOp = "message" /\ ~PrevPage.present)
    => tasksData = prevCache.tasks /\ countsData = PrevCounts

(* C18, amended: with no page cached under the current key, a push event  *)
(* changes no page, and onUpdated changes nothing; onCreated and          *)
(* onDeleted still adjust the counts when those are cached.  A page and   *)
(* the counts come into the cache through a pull only.                    *)
C18_NoPageNoFabrication ==
  /\ (lastOp = "message" /\ ~PrevPage.present) => tasksData = prevCache.tasks
  /\ (Pushed("task_updated") /\ ~PrevPage.present) => countsData = PrevCounts
  /\ \A k \in QueryKeys :
       (tasksData[k].present /\ ~prevCache.tasks[k].present) => lastOp = "pullTasks"
  /\ (countsData.present /\ ~PrevCounts.present) => lastOp = "pullCounts"

C18_Witness ==
  /\ Pushed("task_created") /\ Shown(EventTask)
  /\ ~PrevPage.present /\ ~CurrentPage.present
  /\ PrevCounts.present /\ countsData.total = PrevCounts.total + 1

(* C19: every cached page holds at most as many items as the page size of *)
(* its key.                                                               *)
C19_PageWithinSize ==
  \A k \in QueryKeys : tasksData[k].present => Len(tasksData[k].items) <= k.size

(* C20: reconciling between pulls of the same key never throws, whether   *)
(* the entry is missing or was replaced since the last event; an entry    *)
(* that is missing stays missing, and after a pull the entry is what the  *)
(* server answered, whatever was reconciled before.                       *)
C20_InterleavedPullSafe ==
  /\ lastOp = "message" =>
       /\ thrown = {}
       /\ CurrentPage.present = PrevPage.present
  /\ lastOp = "pullTasks" =>
       /\ pulled.present
       /\ CurrentPage = pulled
       /\ OtherPagesKept /\ countsData = PrevCounts

C20_Witness ==
  /\ lastOp = "pullTasks" /\ pushes = MaxPushes
  /\ PrevPage.present /\ PrevPage \notin ServerPages(filters)
  /\ CurrentPage = pulled /\ CurrentPage # PrevPage

(* C24: after the transport reports open the status is connected,         *)
(* retryCount is 0, lastError is cleared and no retry or countdown timer  *)
(* is pending, nextRetryIn being absent.                                  *)
C24_OpenResets ==
  lastOp = "open" =>
    /\ status = "connected" /\ isConnected /\ ~isConnecting
    /\ retryCount = 0 /\ lastError = NoError
    /\ retryTimer = Null /\ retryCountdownTimer = Null
    /\ LiveTimeouts = {} /\ intervals = {}
    /\ nextRetryIn = Undefined

C24_Witness ==
  /\ lastOp = "open" /\ pre.status = "reconnecting" /\ pre.hadSource
  /\ status = "connected" /\ retryCount = 0 /\ lastError = NoError
  /\ nextRetryIn = Undefined /\ LiveTimeouts = {}

(* C25: after the transport reports an error lastError is set, the        *)
(* transport is closed and its handle dropped, and the status is neither  *)
(* connected nor connecting.                                              *)
C25_ErrorClosesTransport ==
  lastOp = "error" =>
    /\ lastError \in {ERR_LOST, ERR_MAX}
    /\ eventSource = Null /\ OpenSources = {}
    /\ ~isConnected /\ ~isConnecting
    /\ status \notin {"connected", "connecting", "reconnecting"}

C25_Witness ==
  /\ lastOp = "error" /\ pre.status = "connected" /\ pre.hadSource
  /\ lastError = ERR_LOST /\ eventSource = Null /\ OpenSources = {}
  /\ status = "disconnected"

(* C26: at most one retry timer and one countdown timer are pending, they *)
(* are the ones the handles name, and none is pending while a transport   *)
(* exists: an error finds no timer left to overwrite when it schedules.   *)
C26_OneTimerOfEachKind ==
  /\ Cardinality(LiveTimeouts) <= 1 /\ Cardinality(intervals) <= 1
  /\ LiveTimeouts \subseteq {retryTimer}
  /\ intervals \subseteq {retryCountdownTimer}
  /\ OpenSources # {} => LiveTimeouts = {} /\ intervals = {}
  /\ lastOp = "error" => ~pre.timerPending

C26_Witness ==
  /\ lastOp = "error" /\ retryCount = 2 /\ ~pre.timerPending
  /\ Cardinality(LiveTimeouts) = 1 /\ Cardinality(intervals) = 1
  /\ retryTimer # Null /\ retryCountdownTimer # Null

(* C27: whenever the retry timer an error scheduled fires, a new          *)
(* transport is opened and a connection attempt is in progress.           *)
C27_RetryOpensTransport ==
  lastOp = "retryTimer" =>
    /\ eventSource # Null /\ isConnecting
    /\ OpenSources = {eventSource}

(* C28: an error that schedules a retry after d ms sets nextRetryIn to    *)
(* ceil(d / 1000); a tick lowers it by 1 while it is above 0; it is never *)
(* below 0; it is absent once the retry timer fired or open, disconnect,  *)
(* forceReconnect or a connect that went ahead cleared the timers.        *)
C28_Countdown ==
  [][ /\ (lastOp' = "error" /\ retryTimer' # Null)
         => /\ nextRetryIn' * 1000 >= timeouts'[retryTimer']
            /\ (nextRetryIn' - 1) * 1000 < timeouts'[retryTimer']
      /\ (lastOp' = "tick" /\ nextRetryIn # Undefined /\ nextRetryIn > 0)
         => nextRetryIn' = nextRetryIn - 1
      /\ (lastOp' = "tick" /\ nextRetryIn = 0) => nextRetryIn' = 0
      /\ (nextRetryIn' = Undefined \/ nextRetryIn' >= 0)
      /\ lastOp' \in {"retryTimer", "open", "disconnect", "forceReconnect"}
         => nextRetryIn' = Undefined
      /\ (lastOp' = "connect" /\ eventSource' # eventSource)
         => nextRetryIn' = Undefined ]_vars

C28_Witness ==
  /\ lastOp = "tick" /\ nextRetryIn = 0
  /\ retryTimer # Null /\ timeouts[retryTimer] = 1000
  /\ retryCountdownTimer # Null

(* C29: disconnect, from any state, leaves no transport open, no timer    *)
(* pending, status disconnected, retryCount 0 and lastError cleared.      *)
C29_DisconnectResets ==
  lastOp = "disconnect" =>
    /\ OpenSources = {} /\ eventSource = Null
    /\ LiveTimeouts = {} /\ intervals = {}
    /\ retryTimer = Null /\ retryCountdownTimer = Null
    /\ nextRetryIn = Undefined
    /\ status = "disconnected" /\ retryCount = 0 /\ lastError = NoError

C29_Witness ==
  /\ lastOp = "disconnect" /\ pre.status = "failed" /\ pre.timerPending
  /\ status = "disconnected" /\ retryCount = 0 /\ lastError = NoError
  /\ Torn

(* C30 as stated: after disconnect no event handler is registered.        *)
C30_Original == lastOp = "disconnect" => eventHandlers = <<>>

(* C30, amended: disconnect closes the transport, and with it the         *)
(* listeners attached to it, but leaves the registered event handlers as  *)
(* they are; only addEventHandler and removeEventHandler change them, so  *)
(* after a later connect every frame is still handed to each of them.     *)
C30_HandlersOutliveDisconnect ==
  [][ /\ (lastOp' = "disconnect"
            => eventHandlers' = eventHandlers /\ OpenSources' = {})
      /\ (eventHandlers' # eventHandlers
            => lastOp' \in {"addEventHandler", "removeEventHandler"})
      /\ (/\ lastOp' = "message"
          /\ lastFrame'.type \in {"task_created", "task_updated", "task_deleted"}
          /\ lastFrame'.data.kind # "garbage")
            => calls' = Members(eventHandlers) ]_vars

C30_Witness ==
  /\ lastOp = "disconnect" /\ pre.status = "connected"
  /\ eventHandlers = <<"handleSSETaskEvent">>
  /\ OpenSources = {}

(* ---- the mutations of the user ---- *)
CountId(items, id) == Cardinality({k \in 1..Len(items) : items[k].id = id})
Accepted(kind, id) ==
  mutation.phase = "accepted" /\ mutation.kind = kind /\ mutation.task.id = id

C22_CreatedAppearsOnce ==
  /\ [](\A i \in ItemIds : CountId(CurrentPage.items, i) <= 1)
  /\ \A i \in ItemIds :
       Accepted("create", i) ~> (CountId(CurrentPage.items, i) = 1)

(* a task the API has removed: its id was given out and is stored no     *)
(* more; ids are not given out twice, so a removed task stays removed     *)
Removed(i) == i < server.nextId /\ ~HasId(server.tasks, i)

(* C23: from some moment on, no task the API has accepted the removal of  *)
(* is in the page of the view: each is eventually absent and stays absent. *)
C23_DeletedStaysAbsent ==
  <>[](\A i \in ItemIds : Removed(i) => ~HasId(CurrentPage.items, i))
C23_Witness ==
  /\ lastOp = "pullTasks"
  /\ stream # <<>> /\ Head(stream).type = "task_deleted"
  /\ ~HasId(CurrentPage.items, Head(stream).data.task.id)
  /\ CurrentPage.present

(* ---- the connection state seen from outside ---- *)
(* C35: whenever the status is failed, no retry timer and no countdown    *)
(* timer is outstanding and nextRetryIn is absent.                         *)
C35_FailedHasNoTimers ==
  status = "failed" =>
    /\ LiveTimeouts = {} /\ intervals = {}
    /\ retryTimer = Null /\ retryCountdownTimer = Null
    /\ nextRetryIn = Undefined

(* C36: retryCount stays within 0..MAX_RETRIES; the status is failed      *)
(* exactly when retryCount >= MAX_RETRIES, that is hasFailedPermanently   *)
(* exactly when not canRetry; and with retryCount >= MAX_RETRIES there is *)
(* no transport, no open connection and no attempt in progress.            *)
C36_RetryCountAndFailed ==
  /\ 0 <= retryCount /\ retryCount <= MAX_RETRIES
  /\ (status = "failed") <=> (retryCount >= MAX_RETRIES)
  /\ hasFailedPermanently <=> ~canRetry
  /\ retryCount >= MAX_RETRIES =>
       /\ ~isConnected /\ ~isConnecting
       /\ eventSource = Null /\ OpenSources = {}

C36_Witness ==
  /\ lastOp = "connect" /\ retryCount = MAX_RETRIES
  /\ hasFailedPermanently /\ ~canRetry /\ OpenSources = {}

(* C39: with a retry scheduled and retryCount < MAX_RETRIES the status is *)
(* disconnected; it is reconnecting exactly while an attempt is in        *)
(* progress with retryCount > 0 and connecting exactly while one is in    *)
(* progress with retryCount = 0; an attempt is in progress exactly while  *)
(* the transport of the connection is connecting.                          *)
C39_StatusWhileRetrying ==
  /\ (retryTimer # Null /\ retryCount < MAX_RETRIES) => status = "disconnected"
  /\ (status = "reconnecting") <=> (isConnecting /\ retryCount > 0)
  /\ (status = "connecting") <=> (isConnecting /\ retryCount = 0)
  /\ isConnecting <=> (eventSource # Null /\ sources[eventSource] = "CONNECTING")

C39_Witness ==
  /\ lastOp = "error" /\ retryTimer # Null /\ LiveTimeouts = {retryTimer}
  /\ retryCount > 0 /\ retryCount < MAX_RETRIES
  /\ status = "disconnected"

(* ---- the cache under push events, continued ---- *)
(* C32: every item of a cached page whose key names a status has that     *)
(* status, whatever push events have been applied.                        *)
C32_FilterInvariant ==
  \A k \in QueryKeys :
    k.status # "undefined" =>
      \A i \in 1..Len(tasksData[k].items) : tasksData[k].items[i].status = k.status

(* C33: onCreated, when counts are cached, raises their total and the     *)
(* bucket of the task's status by exactly 1 and leaves the other buckets, *)
(* whatever the filter state is and whether or not the view shows the     *)
(* task.                                                                   *)
C33_CreatedCounts ==
  (Pushed("task_created") /\ PrevCounts.present) =>
    /\ countsData.present
    /\ countsData.total = PrevCounts.total + 1
    /\ \A b \in TaskStatus :
         countsData[b] = IF b = EventTask.status
                         THEN PrevCounts[b] + 1 ELSE PrevCounts[b]

C33_Witness ==
  /\ Pushed("task_created") /\ EventTask.status = "DONE"
  /\ filters.tab = "OPEN" /\ ~Shown(EventTask)
  /\ PrevCounts.present /\ PrevPage.present
  /\ countsData.DONE = PrevCounts.DONE + 1
  /\ countsData.total = PrevCounts.total + 1

(* C34: onDeleted for a task that is not in the current page, as when the *)
(* same task_deleted event arrives again or the task's status is not the  *)
(* one the view shows, changes neither the items nor the total of the     *)
(* page.                                                                   *)
C34_DeletedAgainNoEffect ==
  (/\ Pushed("task_deleted")
   /\ PrevPage.present
   /\ ~HasId(PrevPage.items, EventTask.id))
    => CurrentPage = PrevPage

(* C38: the total of the cached counts is the sum of the three buckets,   *)
(* whatever push events have been applied to them.                        *)
C38_CountsSumToTotal ==
  countsData.present =>
    countsData.total = countsData.OPEN + countsData.IN_PROGRESS + countsData.DONE

(* ---- the order of dispatch ---- *)
(* the state the last step started from, as far as a reconciler reads it *)
Before ==
  [Cur EXCEPT !.filters = prevCache.filters, !.tasksData = prevCache.tasks,
              !.countsData = prevCache.counts]

C37_SameKey ==
  LET key == reconcilerKey(filters)
  IN /\ key = getTasksQueryKey(filters)
     /\ (key.status = "undefined") <=> (filters.tab \in {"ALL", "undefined"})
     /\ key.status # "undefined" => key.status = filters.tab
     /\ key.page = (IF filters.page = Undefined THEN 1 ELSE filters.page)
     /\ key.size = (IF filters.size = Undefined THEN 12 ELSE filters.size)
     /\ lastOp \in {"message", "pullTasks"} => OtherPagesKept
     /\ lastOp = "pullTasks" => CurrentPage = pulled

C37_Witness ==
  /\ Pushed("task_created")
  /\ filters = [tab |-> "undefined", page |-> Undefined, size |-> Undefined]
  /\ getTasksQueryKey(filters) = [status |-> "undefined", page |-> 1, size |-> 12]
  /\ CurrentPage # PrevPage /\ HasId(CurrentPage.items, EventTask.id)

(* C40: setStatusFilter and setPageSize leave the page number 1 and the   *)
(* fields they were not given as they were; setPage leaves tab and size;  *)
(* none of them touches the cache; after setStatusFilter or setPageSize   *)
(* the key of the reconciler and the key of the pull are the same key of  *)
(* page 1.                                                                 *)
C40_SettersResetPage ==
  LET old == prevCache.filters
  IN /\ lastOp = "setStatusFilter" =>
          /\ filters.page = 1 /\ filters.size = old.size
          /\ filters.tab \in TaskTabs
     /\ lastOp = "setPageSize" =>
          /\ filters.page = 1 /\ filters.tab = old.tab
          /\ filters.size \in PageSizes
     /\ lastOp = "setPage" =>
          /\ filters.tab = old.tab /\ filters.size = old.size
          /\ filters.page \in Pages
     /\ lastOp \in {"setStatusFilter", "setPageSize", "setPage"} =>
          tasksData = prevCache.tasks /\ countsData = prevCache.counts
     /\ lastOp \in {"setStatusFilter", "setPageSize"} =>
          /\ reconcilerKey(filters).page = 1
          /\ getTasksQueryKey(filters) = reconcilerKey(filters)

C40_Witness ==
  /\ lastOp = "setPageSize"
  /\ prevCache.filters = [tab |-> "OPEN", page |-> 2, size |-> 12]
  /\ filters = [tab |-> "OPEN", page |-> 1, size |-> 1]

====
